---- MODULE Spec2Model ----
(***************************************************************************)
(* Model of face2face/core/mixins/_face_embedding.py: the reference-face   *)
(* embedding store (_FaceEmbedding mixin).  State: the in-memory index     *)
(* self._face_embeddings, the files on disk, and the folder the store      *)
(* reads from.  Names, keys and paths are sequences of tokens so that      *)
(* encode_path_safe, os.path.join and glob act on their structure.         *)
(***************************************************************************)
EXTENDS Integers, Sequences, FiniteSets, TLC

VARIABLES face_embedding_folder, face_embeddings, disk, last, got, wr,
          unsaved

vars == <<face_embedding_folder, face_embeddings, disk, last, got, wr, unsaved>>

-----------------------------------------------------------------------------
(* Bounds                                                                  *)

\* longest list of names handed to load_faces
MaxBatch == 2
\* largest number of bytes one write step of a concurrent add puts on disk
MaxChunk == 2
\* most bytes of the buffer a failed f.write leaves in the file
MaxWritten == 1
\* most vectors in a record handed to the serializer, and their largest
\* dimension
MaxFaces == 2
MaxDim == 2

-----------------------------------------------------------------------------
(* Tokens, names, paths                                                    *)

Sep == "/"
Ext == ".npz"
Unsafe == {"/", "?"}

\* the directory add_face writes to, and another one a store can be built on
EMBEDDINGS_DIR == <<"emb">>
OtherDir == <<"/", "alt">>
Dirs == {EMBEDDINGS_DIR, OtherDir}

\* raw names callers use: a safe one, an unsafe spelling of it, another safe one
Names == {<<"a">>, <<"a", "?">>, <<"b">>}

\* encode_path_safe: drops every character that is not path safe
encode_path_safe(name) == SelectSeq(name, LAMBDA c : c \notin Unsafe)

Keys == {encode_path_safe(n) : n \in Names}

\* os.path.join(dir, p): an absolute p replaces dir
Join(dir, p) == IF Len(p) > 0 /\ p[1] = Sep THEN p ELSE dir \o <<Sep>> \o p

\* load_face: os.path.join(self._face_embedding_folder, f"{face_name}.npz")
ReadFileOf(dir, name) == Join(dir, name \o <<Ext>>)

\* add_face: os.path.join(EMBEDDINGS_DIR, f"{face_name}.npz")
WriteFileOf(key) == Join(EMBEDDINGS_DIR, key \o <<Ext>>)

\* glob.glob(dir + "/*.npz"): the visible .npz files directly in dir, as paths
Glob(d, dir) ==
    {p \in DOMAIN d :
        /\ Len(p) >= Len(dir) + 3
        /\ SubSeq(p, 1, Len(dir) + 1) = dir \o <<Sep>>
        /\ p[Len(p)] = Ext
        /\ \A i \in (Len(dir) + 2)..(Len(p) - 1) : p[i] # Sep}

-----------------------------------------------------------------------------
(* Feature vectors and the serializer                                      *)

V1 == <<1>>
V2 == <<2, 3>>
Vectors == {V1, V2}

\* what detect_faces can return for the images callers pass
Detected == {<<>>, <<V1>>, <<V2, V1>>}

\* records already on disk when a store is built
Stored == <<V2>>

RECURSIVE EncodeVecs(_)
EncodeVecs(vs) ==
    IF Len(vs) = 0 THEN <<>>
    ELSE <<Len(Head(vs))>> \o Head(vs) \o EncodeVecs(Tail(vs))

\* np.save of the record: count, then per vector its dimension and payload
Encode(vs) == <<Len(vs)>> \o EncodeVecs(vs)

\* as DecodeCons, but the vector read first is put after those that follow
DecodeConsReversed(b, r) ==
    [ok |-> r.ok,
     vectors |-> IF r.ok THEN r.vectors \o <<SubSeq(b, 2, 1 + Head(b))>>
                 ELSE <<>>,
     rest |-> r.rest]

\* one vector read from the front of b, then the n - 1 that follow (in r)
DecodeCons(b, r) ==
    [ok |-> r.ok,
     vectors |-> IF r.ok THEN <<SubSeq(b, 2, 1 + Head(b))>> \o r.vectors
                 ELSE <<>>,
     rest |-> r.rest]

RECURSIVE DecodeVecs(_, _)
DecodeVecs(b, n) ==
    IF n = 0 THEN [ok |-> TRUE, vectors |-> <<>>, rest |-> b]
    ELSE IF Len(b) = 0 \/ Head(b) < 1 \/ Len(b) < 1 + Head(b)
         THEN [ok |-> FALSE, vectors |-> <<>>, rest |-> <<>>]
         ELSE DecodeCons(b, DecodeVecs(SubSeq(b, 2 + Head(b), Len(b)), n - 1))

\* the buffer must hold exactly the vectors its count announces
DecodeAll(r) ==
    IF r.ok /\ Len(r.rest) = 0
    THEN [ok |-> TRUE, vectors |-> r.vectors]
    ELSE [ok |-> FALSE, vectors |-> <<>>]

\* np.load of the record; not ok when the buffer is truncated or inconsistent
Decode(b) ==
    IF Len(b) = 0 THEN [ok |-> FALSE, vectors |-> <<>>]
    ELSE DecodeAll(DecodeVecs(Tail(b), Head(b)))

-----------------------------------------------------------------------------
(* Maps                                                                    *)

EmptyMap == [k \in {} |-> <<>>]

Put(f, k, v) == [x \in DOMAIN f \cup {k} |-> IF x = k THEN v ELSE f[x]]

-----------------------------------------------------------------------------
(* The record of the last call                                             *)

NoCall ==
    [op |-> "none", name |-> <<>>, names |-> <<>>,
     vectors |-> <<>>, save |-> FALSE, status |-> "none", key |-> <<>>,
     bytes |-> <<>>, value |-> <<>>, map |-> EmptyMap, reads |-> <<>>,
     looked |-> 0, again |-> FALSE, after |-> <<>>, elems |-> <<>>]

Call(op) == [NoCall EXCEPT !.op = op]

NoWrite ==
    [busy |-> FALSE, name |-> <<>>, file |-> <<>>, bytes |-> <<>>, key |-> <<>>]

-----------------------------------------------------------------------------
(* load_face                                                               *)

FileRead(d, file, r) ==
    [status |-> IF r.ok THEN "ok" ELSE "Corrupt",
     vectors |-> r.vectors,
     read |-> [file |-> file, found |-> TRUE, bytes |-> d[file]]]

\* load_reference_face_from_file: None when there is no such file
load_reference_face_from_file(d, file) ==
    IF file \notin DOMAIN d
    THEN [status |-> "NotFound", vectors |-> <<>>,
          read |-> [file |-> file, found |-> FALSE, bytes |-> <<>>]]
    ELSE FileRead(d, file, Decode(d[file]))

\* as LoadMiss, but the loaded faces are not added to the index
LoadMissNoCache(m, face_name, r) ==
    IF r.status = "ok"
    THEN [status |-> "ok", value |-> r.vectors, mem |-> m, reads |-> <<r.read>>]
    ELSE [status |-> r.status, value |-> <<>>, mem |-> m, reads |-> <<r.read>>]

\* as LoadMiss, but a missing file gives an empty record instead of an error
LoadMissDefault(m, face_name, r) ==
    IF r.status = "ok"
    THEN [status |-> "ok", value |-> r.vectors,
          mem |-> Put(m, face_name, r.vectors), reads |-> <<r.read>>]
    ELSE [status |-> "ok", value |-> <<>>, mem |-> Put(m, face_name, <<>>),
          reads |-> <<r.read>>]

\* as LoadMiss, but the index entry is written before the result is checked,
\* so a failed load leaves an empty entry behind
LoadMissCachesFailure(m, face_name, r) ==
    IF r.status = "ok"
    THEN [status |-> "ok", value |-> r.vectors,
          mem |-> Put(m, face_name, r.vectors), reads |-> <<r.read>>]
    ELSE [status |-> r.status, value |-> <<>>, mem |-> Put(m, face_name, <<>>),
          reads |-> <<r.read>>]

\* as LoadMiss, but the index is replaced by one holding only the loaded entry
LoadMissDropsOthers(m, face_name, r) ==
    IF r.status = "ok"
    THEN [status |-> "ok", value |-> r.vectors,
          mem |-> Put(EmptyMap, face_name, r.vectors), reads |-> <<r.read>>]
    ELSE [status |-> r.status, value |-> <<>>, mem |-> m, reads |-> <<r.read>>]

\* load_face after the file was read: raise, or convert and add to the index
LoadMiss(m, face_name, r) ==
    IF r.status = "ok"
    THEN [status |-> "ok", value |-> r.vectors,
          mem |-> Put(m, face_name, r.vectors), reads |-> <<r.read>>]
    ELSE [status |-> r.status, value |-> <<>>, mem |-> m, reads |-> <<r.read>>]

load_face(m, d, dir, face_name) ==
    IF face_name \in DOMAIN m
    THEN [status |-> "ok", value |-> m[face_name], mem |-> m, reads |-> <<>>]
    ELSE LoadMiss(m, face_name,
                  load_reference_face_from_file(d, ReadFileOf(dir, face_name)))

\* the record files the directories ds can hold
RecordFiles(ds) == {Join(d, k \o <<Ext>>) : d \in ds, k \in Keys}

Init ==
    /\ face_embedding_folder \in Dirs
    /\ face_embeddings = EmptyMap
    /\ \E present \in SUBSET RecordFiles({face_embedding_folder, EMBEDDINGS_DIR}) :
          disk = [p \in present |-> Encode(Stored)]
    /\ last = NoCall
    /\ got = EmptyMap
    /\ wr = NoWrite
    /\ unsaved = {}

\* load_face called by the owner of the store; with track, the call is also
\* entered in got, the first result of each name since the last add_face
GetStep(name, track) ==
    LET r == load_face(face_embeddings, disk, face_embedding_folder, name)
    IN  /\ face_embeddings' = r.mem
        /\ last' = [Call("get") EXCEPT !.name = name, !.status = r.status,
                                       !.value = r.value, !.reads = r.reads,
                                       !.again = (name \in DOMAIN got)]
        /\ got' = IF track /\ name \notin DOMAIN got
                  THEN Put(got, name, [status |-> r.status, value |-> r.value,
                                       io |-> Len(r.reads)])
                  ELSE got
        /\ UNCHANGED <<face_embedding_folder, unsaved, disk, wr>>

Get(name) == GetStep(name, FALSE)

TrackedGet(name) == GetStep(name, TRUE)

\* the entry of the first element (r) put before those of the rest
LoadSeqJoin(face, r, rest) ==
    [status |-> rest.status,
     mem |-> rest.mem,
     reads |-> r.reads \o rest.reads,
     map |-> IF rest.status # "ok" THEN EmptyMap
             ELSE IF face \in DOMAIN rest.map THEN rest.map
             ELSE Put(rest.map, face, r.value),
     looked |-> 1 + rest.looked]

\* the loop of load_faces and load_all_faces: load_face on each element in
\* turn; the first failure propagates and ends the loop
RECURSIVE LoadSeq(_, _, _, _)
RECURSIVE LoadSeqRest(_, _, _, _)

\* as LoadSeqRest, but a failed element is skipped and the loop goes on
LoadSeqRestSkip(r, d, dir, faces) ==
    IF r.status # "ok"
    THEN LoadSeqJoin(Head(faces), [r EXCEPT !.status = "ok"],
                     LoadSeq(r.mem, d, dir, Tail(faces)))
    ELSE LoadSeqJoin(Head(faces), r, LoadSeq(r.mem, d, dir, Tail(faces)))

LoadSeqRest(r, d, dir, faces) ==
    IF r.status # "ok"
    THEN [status |-> r.status, mem |-> r.mem, reads |-> r.reads,
          map |-> EmptyMap, looked |-> 1]
    ELSE LoadSeqJoin(Head(faces), r, LoadSeq(r.mem, d, dir, Tail(faces)))

LoadSeq(m, d, dir, faces) ==
    IF Len(faces) = 0
    THEN [status |-> "ok", mem |-> m, reads |-> <<>>, map |-> EmptyMap,
          looked |-> 0]
    ELSE LoadSeqRest(load_face(m, d, dir, Head(faces)), d, dir, faces)

\* the orders in which glob can list a set of files
Orders(S) ==
    {s \in [1..Cardinality(S) -> S] : \A p \in S : \E i \in DOMAIN s : s[i] = p}

AllLoaded(r) ==
    [status |-> r.status, mem |-> r.mem, reads |-> r.reads,
     map |-> IF r.status = "ok" THEN r.mem ELSE EmptyMap,
     looked |-> r.looked]

\* load_all_faces, with the files listed in the order files
load_all_faces(m, d, dir, files) == AllLoaded(LoadSeq(m, d, dir, files))

BatchResult(op, r) ==
    [Call(op) EXCEPT !.status = r.status, !.map = r.map, !.reads = r.reads,
                     !.looked = r.looked]

LoadAll(files) ==
    LET r == load_all_faces(face_embeddings, disk, face_embedding_folder, files)
    IN  /\ face_embeddings' = r.mem
        /\ last' = [BatchResult("loadAll", r)
                       EXCEPT !.again = (last.op = "loadAll")]
        /\ UNCHANGED <<face_embedding_folder, unsaved, disk, got, wr>>

\* load_faces(None)
LoadFacesNone(files) ==
    LET r == load_all_faces(face_embeddings, disk, face_embedding_folder, files)
    IN  /\ face_embeddings' = r.mem
        /\ last' = BatchResult("getManyAll", r)
        /\ UNCHANGED <<face_embedding_folder, unsaved, disk, got, wr>>

\* load_faces(name)
LoadFacesStr(name) ==
    LET r == LoadSeq(face_embeddings, disk, face_embedding_folder, <<name>>)
    IN  /\ face_embeddings' = r.mem
        /\ last' = [BatchResult("getManyOne", r) EXCEPT !.names = <<name>>]
        /\ UNCHANGED <<face_embedding_folder, unsaved, disk, got, wr>>

BatchSeqs == UNION {[1..n -> Names] : n \in 0..MaxBatch}

\* load_faces([name, ...])
LoadFacesList(names) ==
    LET r == LoadSeq(face_embeddings, disk, face_embedding_folder, names)
    IN  /\ face_embeddings' = r.mem
        /\ last' = [BatchResult("getMany", r) EXCEPT !.names = names]
        /\ UNCHANGED <<face_embedding_folder, unsaved, disk, got, wr>>

-----------------------------------------------------------------------------
(* load_faces on a list that can hold Face objects                         *)

\* an element of the list: a name, or a Face object (one detected face)
StrElem(name) == [str |-> TRUE, name |-> name, face |-> <<>>]
FaceElem(face) == [str |-> FALSE, name |-> <<>>, face |-> face]

Elems == {StrElem(n) : n \in Names} \cup {FaceElem(v) : v \in Vectors}

ElemSeqs == UNION {[1..n -> Elems] : n \in 0..MaxBatch}

\* face if isinstance(face, str) else i, for the element at position pos of
\* the list (enumerate counts from 0); idx is -1 for a key that is a name
ElemKey(e, pos) ==
    IF e.str THEN [idx |-> -1, name |-> e.name]
    ELSE [idx |-> pos - 1, name |-> <<>>]

\* self.load_face(face): a Face is a dict, so looking it up in the index
\* raises TypeError (unhashable) before any file is read
load_face_elem(m, d, dir, e) ==
    IF e.str THEN load_face(m, d, dir, e.name)
    ELSE [status |-> "TypeError", value |-> <<>>, mem |-> m, reads |-> <<>>]

\* the entry of the element at pos put before those of the later elements
LoadElemsJoin(key, r, rest) ==
    [status |-> rest.status,
     mem |-> rest.mem,
     reads |-> r.reads \o rest.reads,
     map |-> IF rest.status # "ok" THEN EmptyMap
             ELSE IF key \in DOMAIN rest.map THEN rest.map
             ELSE Put(rest.map, key, r.value),
     looked |-> 1 + rest.looked]

RECURSIVE LoadElems(_, _, _, _, _)

LoadElemsRest(r, d, dir, elems, pos) ==
    IF r.status # "ok"
    THEN [status |-> r.status, mem |-> r.mem, reads |-> r.reads,
          map |-> EmptyMap, looked |-> 1]
    ELSE LoadElemsJoin(ElemKey(elems[pos], pos), r,
                       LoadElems(r.mem, d, dir, elems, pos + 1))

\* the dict comprehension of load_faces from position pos on
LoadElems(m, d, dir, elems, pos) ==
    IF pos > Len(elems)
    THEN [status |-> "ok", mem |-> m, reads |-> <<>>, map |-> EmptyMap,
          looked |-> 0]
    ELSE LoadElemsRest(load_face_elem(m, d, dir, elems[pos]), d, dir, elems, pos)

\* load_faces([element, ...])
LoadFacesElems(elems) ==
    LET r == LoadElems(face_embeddings, disk, face_embedding_folder, elems, 1)
    IN  /\ face_embeddings' = r.mem
        /\ last' = [BatchResult("getManyElems", r) EXCEPT !.elems = elems]
        /\ UNCHANGED <<face_embedding_folder, unsaved, disk, got, wr>>

-----------------------------------------------------------------------------
(* add_face                                                                *)

\* as add_face, but the index is written before the detection is checked
add_face_stores_first(m, d, face_name, detected_faces, save) ==
    LET key == encode_path_safe(face_name)
        bytes == Encode(detected_faces)
    IN  IF Len(detected_faces) = 0
        THEN [status |-> "NoFace", mem |-> Put(m, key, detected_faces),
              disk |-> d, key |-> <<>>, bytes |-> <<>>]
        ELSE [status |-> "ok",
              mem |-> Put(m, key, detected_faces),
              disk |-> IF save THEN Put(d, WriteFileOf(key), bytes) ELSE d,
              key |-> key,
              bytes |-> bytes]

\* as add_face, but the file is written whatever save says
add_face_always_saves(m, d, face_name, detected_faces, save) ==
    LET key == encode_path_safe(face_name)
        bytes == Encode(detected_faces)
    IN  IF Len(detected_faces) = 0
        THEN [status |-> "NoFace", mem |-> m, disk |-> d, key |-> <<>>,
              bytes |-> <<>>]
        ELSE [status |-> "ok",
              mem |-> Put(m, key, detected_faces),
              disk |-> Put(d, WriteFileOf(key), bytes),
              key |-> key,
              bytes |-> bytes]

\* as add_face, but index and file are keyed by the name as given
add_face_raw_key(m, d, face_name, detected_faces, save) ==
    LET bytes == Encode(detected_faces)
    IN  IF Len(detected_faces) = 0
        THEN [status |-> "NoFace", mem |-> m, disk |-> d, key |-> <<>>,
              bytes |-> <<>>]
        ELSE [status |-> "ok",
              mem |-> Put(m, face_name, detected_faces),
              disk |-> IF save THEN Put(d, WriteFileOf(face_name), bytes) ELSE d,
              key |-> face_name,
              bytes |-> bytes]

\* as add_face, but the index is replaced by one holding only the new entry
add_face_resets_index(m, d, face_name, detected_faces, save) ==
    LET key == encode_path_safe(face_name)
        bytes == Encode(detected_faces)
    IN  IF Len(detected_faces) = 0
        THEN [status |-> "NoFace", mem |-> m, disk |-> d, key |-> <<>>,
              bytes |-> <<>>]
        ELSE [status |-> "ok",
              mem |-> Put(EmptyMap, key, detected_faces),
              disk |-> IF save THEN Put(d, WriteFileOf(key), bytes) ELSE d,
              key |-> key,
              bytes |-> bytes]

\* as add_face, but the name is returned as the caller gave it
add_face_returns_name(m, d, face_name, detected_faces, save) ==
    LET key == encode_path_safe(face_name)
        bytes == Encode(detected_faces)
    IN  IF Len(detected_faces) = 0
        THEN [status |-> "NoFace", mem |-> m, disk |-> d, key |-> <<>>,
              bytes |-> <<>>]
        ELSE [status |-> "ok",
              mem |-> Put(m, key, detected_faces),
              disk |-> IF save THEN Put(d, WriteFileOf(key), bytes) ELSE d,
              key |-> face_name,
              bytes |-> bytes]

\* as add_face, but a call that saves returns before the index is written
add_face_save_skips_index(m, d, face_name, detected_faces, save) ==
    LET key == encode_path_safe(face_name)
        bytes == Encode(detected_faces)
    IN  IF Len(detected_faces) = 0
        THEN [status |-> "NoFace", mem |-> m, disk |-> d, key |-> <<>>,
              bytes |-> <<>>]
        ELSE [status |-> "ok",
              mem |-> IF save THEN m ELSE Put(m, key, detected_faces),
              disk |-> IF save THEN Put(d, WriteFileOf(key), bytes) ELSE d,
              key |-> key,
              bytes |-> bytes]

\* the effect of add_face on the index and the disk, and what it returns
add_face(m, d, face_name, detected_faces, save) ==
    LET key == encode_path_safe(face_name)
        bytes == Encode(detected_faces)
    IN  IF Len(detected_faces) = 0
        THEN [status |-> "NoFace", mem |-> m, disk |-> d, key |-> <<>>,
              bytes |-> <<>>]
        ELSE [status |-> "ok",
              mem |-> Put(m, key, detected_faces),
              disk |-> IF save THEN Put(d, WriteFileOf(key), bytes) ELSE d,
              key |-> key,
              bytes |-> bytes]

\* the steps of the save=True branch that can raise: os.makedirs, open, and
\* f.write after n bytes of the buffer reached the file
Faults ==
    {[at |-> "makedirs", n |-> 0], [at |-> "open", n |-> 0]}
        \cup {[at |-> "write", n |-> k] : k \in 0..MaxWritten}

\* as add_face_fault, but the index is written only once the file is saved
add_face_fault_rolled_back(m, d, face_name, detected_faces, fault) ==
    [status |-> "OSError",
     mem |-> m,
     disk |-> IF fault.at = "write"
              THEN Put(d, WriteFileOf(encode_path_safe(face_name)),
                       SubSeq(Encode(detected_faces), 1, fault.n))
              ELSE d,
     key |-> <<>>,
     bytes |-> <<>>]

\* add_face with save=True and a face detected, when one of the steps in
\* Faults raises: the index is already written; a failed f.write leaves the
\* file created or truncated by open, holding the bytes written so far; the
\* except clause prints and raises again, so nothing is returned
add_face_fault(m, d, face_name, detected_faces, fault) ==
    [status |-> "OSError",
     mem |-> Put(m, encode_path_safe(face_name), detected_faces),
     disk |-> IF fault.at = "write"
              THEN Put(d, WriteFileOf(encode_path_safe(face_name)),
                       SubSeq(Encode(detected_faces), 1, fault.n))
              ELSE d,
     key |-> <<>>,
     bytes |-> <<>>]

\* the name of the call before this one, when that was an add_face that saved
SavedBefore ==
    IF last.op = "add" /\ last.status = "ok" /\ last.save THEN last.name
    ELSE <<>>

\* add_face called by the owner of the store; with track, unsaved is kept
\* as the set of keys whose latest successful add_face did not save
AddStep(name, detected, save, track) ==
    LET r == add_face(face_embeddings, disk, name, detected, save)
    IN  /\ face_embeddings' = r.mem
        /\ disk' = r.disk
        /\ last' = [Call("add") EXCEPT !.name = name, !.vectors = detected,
                                       !.save = save, !.status = r.status,
                                       !.key = r.key, !.bytes = r.bytes,
                                       !.after = SavedBefore]
        /\ got' = EmptyMap
        /\ unsaved' = IF track /\ r.status = "ok"
                      THEN IF save THEN unsaved \ {r.key}
                           ELSE unsaved \cup {r.key}
                      ELSE unsaved
        /\ UNCHANGED <<face_embedding_folder, wr>>

Add(name, detected, save) == AddStep(name, detected, save, FALSE)

TrackedAdd(name, detected, save) == AddStep(name, detected, save, TRUE)

\* add_face(name, image, save=True) whose save fails
AddFails(name, detected, fault) ==
    LET r == add_face_fault(face_embeddings, disk, name, detected, fault)
    IN  /\ Len(detected) > 0
        /\ fault.n < Len(Encode(detected))
        /\ face_embeddings' = r.mem
        /\ disk' = r.disk
        /\ last' = [Call("add") EXCEPT !.name = name, !.vectors = detected,
                                       !.save = TRUE, !.status = r.status,
                                       !.key = r.key, !.bytes = r.bytes,
                                       !.after = SavedBefore]
        /\ got' = EmptyMap
        /\ UNCHANGED <<face_embedding_folder, unsaved, wr>>

Next ==
    \/ \E name \in Names : Get(name)
    \/ \E name \in Names : LoadFacesStr(name)
    \/ \E names \in BatchSeqs : LoadFacesList(names)
    \/ \E files \in Orders(Glob(disk, face_embedding_folder)) :
          LoadFacesNone(files)
    \/ \E files \in Orders(Glob(disk, face_embedding_folder)) :
          LoadAll(files)
    \/ \E name \in Names, detected \in Detected, save \in BOOLEAN :
          Add(name, detected, save)

Spec == Init /\ [][Next]_vars

\* repeated gets: every get is entered in got
NextGets ==
    \/ \E name \in Names : TrackedGet(name)
    \/ \E files \in Orders(Glob(disk, face_embedding_folder)) :
          LoadAll(files)
    \/ \E name \in Names, detected \in Detected, save \in BOOLEAN :
          Add(name, detected, save)

SpecGets == Init /\ [][NextGets]_vars

\* the calls of the store, and saves that fail
NextFaults ==
    \/ \E name \in Names : Get(name)
    \/ \E names \in BatchSeqs : LoadFacesList(names)
    \/ \E files \in Orders(Glob(disk, face_embedding_folder)) :
          LoadAll(files)
    \/ \E name \in Names, detected \in Detected, save \in BOOLEAN :
          Add(name, detected, save)
    \/ \E name \in Names, detected \in Detected, fault \in Faults :
          AddFails(name, detected, fault)

SpecFaults == Init /\ [][NextFaults]_vars

\* the serializer on its own: a record is drawn, encoded, and decoded again
SerialVectors == UNION {[1..n -> 0..1] : n \in 1..MaxDim}

SerialRecords == UNION {[1..n -> SerialVectors] : n \in 0..MaxFaces}

InitSerial ==
    /\ face_embedding_folder = EMBEDDINGS_DIR
    /\ face_embeddings = EmptyMap
    /\ disk = EmptyMap
    /\ \E vs \in SerialRecords : last = [Call("record") EXCEPT !.vectors = vs]
    /\ got = EmptyMap
    /\ wr = NoWrite
    /\ unsaved = {}

SerialEncode ==
    /\ last.op = "record"
    /\ last' = [last EXCEPT !.op = "encode", !.bytes = Encode(last.vectors)]
    /\ UNCHANGED <<face_embedding_folder, unsaved, face_embeddings, disk, got, wr>>

SerialDecode ==
    /\ last.op = "encode"
    /\ last' = [last EXCEPT !.op = "decode",
                            !.status = IF Decode(last.bytes).ok THEN "ok"
                                       ELSE "Corrupt",
                            !.value = Decode(last.bytes).vectors]
    /\ UNCHANGED <<face_embedding_folder, unsaved, face_embeddings, disk, got, wr>>

NextSerial == SerialEncode \/ SerialDecode

SpecSerial == InitSerial /\ [][NextSerial]_vars

\* the calls of the store, with the saving of each key's latest add recorded
NextSaves ==
    \/ \E name \in Names : Get(name)
    \/ \E names \in BatchSeqs : LoadFacesList(names)
    \/ \E files \in Orders(Glob(disk, face_embedding_folder)) :
          LoadAll(files)
    \/ \E name \in Names, detected \in Detected, save \in BOOLEAN :
          TrackedAdd(name, detected, save)

SpecSaves == Init /\ [][NextSaves]_vars

\* lists of names and Face objects
NextElems ==
    \/ \E elems \in ElemSeqs : LoadFacesElems(elems)
    \/ \E name \in Names, detected \in Detected, save \in BOOLEAN :
          Add(name, detected, save)

SpecElems == Init /\ [][NextElems]_vars

-----------------------------------------------------------------------------
(* add_face with save=True beside a reader in another store instance.  The *)
(* call is cut where another process can see the file: open(filename, "wb")*)
(* creates or truncates it, f.write puts the buffer there in one or more   *)
(* pieces, and leaving the with block closes it.                           *)

\* add_face up to and including open(filename, "wb")
AddOpen(name, detected) ==
    /\ ~wr.busy
    /\ Len(detected) > 0
    /\ face_embeddings' = Put(face_embeddings, encode_path_safe(name), detected)
    /\ disk' = Put(disk, WriteFileOf(encode_path_safe(name)), <<>>)
    /\ wr' = [busy |-> TRUE, name |-> name,
              file |-> WriteFileOf(encode_path_safe(name)),
              bytes |-> Encode(detected), key |-> encode_path_safe(name)]
    /\ last' = [Call("addOpen") EXCEPT !.name = name, !.vectors = detected,
                                        !.save = TRUE]
    /\ UNCHANGED <<face_embedding_folder, unsaved, got>>

\* f.write(virtual_file.getbuffer()): the next n bytes reach the file
AddWrite(n) ==
    /\ wr.busy
    /\ Len(disk[wr.file]) < Len(wr.bytes)
    /\ disk' = [disk EXCEPT ![wr.file] =
                   SubSeq(wr.bytes, 1,
                          IF Len(@) + n < Len(wr.bytes) THEN Len(@) + n
                          ELSE Len(wr.bytes))]
    /\ UNCHANGED <<face_embedding_folder, unsaved, face_embeddings, last, got, wr>>

\* the file is closed and add_face returns
AddClose ==
    /\ wr.busy
    /\ disk[wr.file] = wr.bytes
    /\ wr' = NoWrite
    /\ last' = [Call("add") EXCEPT !.name = wr.name,
                                    !.vectors = face_embeddings[wr.key],
                                    !.save = TRUE, !.status = "ok",
                                    !.key = wr.key, !.bytes = wr.bytes]
    /\ got' = EmptyMap
    /\ UNCHANGED <<face_embedding_folder, unsaved, face_embeddings, disk>>

\* load_face in another store instance on the same folder, its index empty
ReaderGet(name) ==
    LET r == load_face(EmptyMap, disk, face_embedding_folder, name)
    IN  /\ last' = [Call("readerGet") EXCEPT !.name = name,
                                             !.status = r.status,
                                             !.value = r.value,
                                             !.reads = r.reads]
        /\ UNCHANGED <<face_embedding_folder, unsaved, face_embeddings, disk, got, wr>>

NextConc ==
    \/ \E name \in Names, detected \in Detected : AddOpen(name, detected)
    \/ \E n \in 1..MaxChunk : AddWrite(n)
    \/ AddClose
    \/ \E name \in Names : ReaderGet(name)

SpecConc == Init /\ [][NextConc]_vars

-----------------------------------------------------------------------------
(* Properties                                                              *)

\* load_face(name) called now on the store, and on a fresh store instance
\* (empty index) over the same folder
GetNow(name) == load_face(face_embeddings, disk, face_embedding_folder, name)
FreshGet(name) == load_face(EmptyMap, disk, face_embedding_folder, name)

\* the files glob lists in the store's folder
Listed == Glob(disk, face_embedding_folder)

\* the record names of the files glob lists in dir
Stem(dir, p) == SubSeq(p, Len(dir) + 2, Len(p) - 1)

SavedAdd == last.op = "add" /\ last.status = "ok" /\ last.save

\* C1: after add(name, v, persist=true), in a store that reads the directory
\* add writes, get(name) returns v from memory, and get(name) on a fresh store
\* with an empty index over that directory returns v
AddThenGet ==
    (SavedAdd /\ face_embedding_folder = EMBEDDINGS_DIR) =>
        /\ GetNow(last.name).status = "ok"
        /\ GetNow(last.name).value = last.vectors
        /\ Len(GetNow(last.name).reads) = 0
        /\ FreshGet(last.name).status = "ok"
        /\ FreshGet(last.name).value = last.vectors

\* C2: loadAll on a store with an empty index whose folder holds exactly the
\* record files of two names A and B returns a mapping with key set {A, B} and
\* the stored vectors, and afterwards get(A) and get(B) read no file
BatchLoad ==
    [][(/\ last'.op = "loadAll"
        /\ face_embeddings = EmptyMap
        /\ Cardinality(Listed) = 2)
       => (/\ last'.status = "ok"
           /\ DOMAIN last'.map = {Stem(face_embedding_folder, p) : p \in Listed}
           /\ \A p \in Listed :
                 /\ Stem(face_embedding_folder, p) \in DOMAIN last'.map
                 /\ last'.map[Stem(face_embedding_folder, p)]
                      = Decode(disk[p]).vectors
                 /\ GetNow(Stem(face_embedding_folder, p))'.status = "ok"
                 /\ Len(GetNow(Stem(face_embedding_folder, p))'.reads) = 0)
      ]_vars

\* C3: add(name, [], persist) raises NoFaceDetectedError for either persist and
\* leaves the index and the disk as they were
EmptyDetectionRejected ==
    [][(last'.op = "add" /\ Len(last'.vectors) = 0)
       => (/\ last'.status = "NoFace"
           /\ face_embeddings' = face_embeddings
           /\ disk' = disk)]_vars

\* an empty add was rejected while its key had an entry in memory and on disk
EmptyDetectionWitness ==
    /\ last.op = "add"
    /\ Len(last.vectors) = 0
    /\ last.status = "NoFace"
    /\ last.name # encode_path_safe(last.name)
    /\ encode_path_safe(last.name) \in DOMAIN face_embeddings
    /\ WriteFileOf(encode_path_safe(last.name)) \in DOMAIN disk

\* C4: after add(name, v1, persist=true) then add(name, v2, persist=true), in a
\* store that reads the directory add writes, get(name) returns v2 on the same
\* store and on a fresh one, and the key's file holds exactly encode(v2)
OverwriteSemantics ==
    (SavedAdd /\ last.after = last.name /\ face_embedding_folder = EMBEDDINGS_DIR) =>
        /\ GetNow(last.name).status = "ok"
        /\ GetNow(last.name).value = last.vectors
        /\ FreshGet(last.name).status = "ok"
        /\ FreshGet(last.name).value = last.vectors
        /\ WriteFileOf(last.key) \in DOMAIN disk
        /\ disk[WriteFileOf(last.key)] = Encode(last.vectors)

\* C5 as stated: a get(name) that repeats a get(name) made since the last add
\* reads no file and returns what the first one returned
CacheHitAvoidsIO ==
    (last.op = "get" /\ last.again) =>
        /\ Len(last.reads) = 0
        /\ last.status = got[last.name].status
        /\ last.value = got[last.name].value

\* C5 amended: a get(name) that repeats a get(name) which succeeded since the
\* last add reads no file and returns the same vectors
CacheHitAfterSuccess ==
    (last.op = "get" /\ last.again /\ got[last.name].status = "ok") =>
        /\ Len(last.reads) = 0
        /\ last.status = "ok"
        /\ last.value = got[last.name].value

\* a repeated get whose first call loaded the record from its file
CacheHitWitness ==
    /\ last.op = "get"
    /\ last.again
    /\ got[last.name].status = "ok"
    /\ got[last.name].io = 1
    /\ Len(last.reads) = 0

\* C6: get(name) for a name that is not in the index and has no file in the
\* store's folder raises NotFoundError, returns nothing and adds no entry
MissingNameFails ==
    [][(/\ last'.op = "get"
        /\ last'.name \notin DOMAIN face_embeddings
        /\ ReadFileOf(face_embedding_folder, last'.name) \notin DOMAIN disk)
       => (/\ last'.status = "NotFound"
           /\ Len(last'.value) = 0
           /\ face_embeddings' = face_embeddings)]_vars

\* a get failed for a name whose key was added to the index before
MissingNameWitness ==
    /\ last.op = "get"
    /\ last.status = "NotFound"
    /\ last.name \notin DOMAIN face_embeddings
    /\ encode_path_safe(last.name) \in DOMAIN face_embeddings

\* element i of names is in neither the index nor the folder
Missing(names, i) ==
    /\ names[i] \notin DOMAIN face_embeddings
    /\ ReadFileOf(face_embedding_folder, names[i]) \notin DOMAIN disk

\* element i of names is in the index or has a complete record file
Found(names, i) ==
    \/ names[i] \in DOMAIN face_embeddings
    \/ /\ ReadFileOf(face_embedding_folder, names[i]) \in DOMAIN disk
       /\ Decode(disk[ReadFileOf(face_embedding_folder, names[i])]).ok

\* what get returns for a found element
FoundValue(names, i) ==
    IF names[i] \in DOMAIN face_embeddings THEN face_embeddings[names[i]]
    ELSE Decode(disk[ReadFileOf(face_embedding_folder, names[i])]).vectors

\* C7: getMany on a sequence whose first missing element is at position i
\* raises NotFoundError and returns no mapping; the elements before i are in
\* the index afterwards, and no element after i is looked up
BatchAbort ==
    [][\A i \in 1..MaxBatch :
         (/\ last'.op = "getMany"
          /\ i <= Len(last'.names)
          /\ Missing(last'.names, i)
          /\ \A j \in 1..(i - 1) : Found(last'.names, j))
         => (/\ last'.status = "NotFound"
             /\ last'.map = EmptyMap
             /\ last'.looked = i
             /\ \A j \in 1..(i - 1) :
                   /\ last'.names[j] \in DOMAIN face_embeddings'
                   /\ face_embeddings'[last'.names[j]] = FoundValue(last'.names, j)
             /\ \A k \in DOMAIN last'.reads :
                   \E j \in 1..i :
                       last'.reads[k].file
                         = ReadFileOf(face_embedding_folder, last'.names[j])
             /\ \A n \in DOMAIN face_embeddings' :
                   \/ n \in DOMAIN face_embeddings
                   \/ \E j \in 1..(i - 1) : n = last'.names[j])
      ]_vars

\* a batch failed at its second element after loading the first from its file
BatchAbortWitness ==
    /\ last.op = "getMany"
    /\ last.status = "NotFound"
    /\ Len(last.names) = 2
    /\ last.looked = 2
    /\ Len(last.reads) = 2
    /\ last.reads[1].found
    /\ last.names[1] \in DOMAIN face_embeddings

\* a buffer that is the encoding of a record
IsRecord(b) == Decode(b).ok /\ Encode(Decode(b).vectors) = b

\* C8: the bytes a get reads from a key's file while an add(persist=true)
\* writes it are always a complete encoded buffer
NoPartialRecord ==
    \A k \in DOMAIN last.reads :
        last.reads[k].found => IsRecord(last.reads[k].bytes)

\* C9: add(name, v, persist=false) leaves every file as it was, so a fresh
\* store's get of the name sees what the disk held before the call
UnsavedNeverOnDisk ==
    [][(last'.op = "add" /\ ~last'.save)
       => (/\ disk' = disk
           /\ load_face(EmptyMap, disk', face_embedding_folder, last'.name)
                = FreshGet(last'.name))]_vars

\* an add without save put a record in the index that has no file
UnsavedWitness ==
    /\ last.op = "add"
    /\ last.status = "ok"
    /\ ~last.save
    /\ last.key \in DOMAIN face_embeddings
    /\ WriteFileOf(last.key) \notin DOMAIN disk

\* the two names of a collision: n1 saved first, n2 saved right after
Collision ==
    /\ SavedAdd
    /\ last.after # <<>>
    /\ last.after # last.name
    /\ encode_path_safe(last.after) = encode_path_safe(last.name)

\* C10: after add(n1, v1, persist=true) then add(n2, v2, persist=true) with
\* n1 # n2 and sanitize(n1) = sanitize(n2) = k, the index holds one entry for
\* the pair, at k with value v2, and the disk one file, k's, holding encode(v2)
KeyCollision ==
    Collision =>
        /\ last.key = encode_path_safe(last.name)
        /\ last.key \in DOMAIN face_embeddings
        /\ face_embeddings[last.key] = last.vectors
        /\ \A n \in {last.after, last.name} :
              n # last.key => n \notin DOMAIN face_embeddings
        /\ WriteFileOf(last.key) \in DOMAIN disk
        /\ disk[WriteFileOf(last.key)] = Encode(last.vectors)
        /\ \A n \in {last.after, last.name}, d \in Dirs :
              n # last.key => ReadFileOf(d, n) \notin DOMAIN disk

\* two colliding names were saved one after the other
KeyCollisionWitness ==
    /\ Collision
    /\ last.name # last.key
    /\ face_embeddings[last.key] = last.vectors

\* element pos of elems is a name that is in the index or has a complete file
ElemFound(elems, pos) ==
    elems[pos].str =>
        \/ elems[pos].name \in DOMAIN face_embeddings
        \/ /\ ReadFileOf(face_embedding_folder, elems[pos].name) \in DOMAIN disk
           /\ Decode(disk[ReadFileOf(face_embedding_folder, elems[pos].name)]).ok

\* C11: getMany on a sequence whose names can all be got returns a mapping
\* with an entry for every element: a name is keyed by itself and holds what
\* get returns for it, any other element is keyed by its position
ElementwiseLoad ==
    [][(/\ last'.op = "getManyElems"
        /\ \A pos \in DOMAIN last'.elems : ElemFound(last'.elems, pos))
       => (/\ last'.status = "ok"
           /\ \A pos \in DOMAIN last'.elems :
                 /\ ElemKey(last'.elems[pos], pos) \in DOMAIN last'.map
                 /\ last'.elems[pos].str =>
                       last'.map[ElemKey(last'.elems[pos], pos)]
                         = GetNow(last'.elems[pos].name).value)
      ]_vars

NeverDeletes ==
    [][/\ DOMAIN face_embeddings \subseteq DOMAIN face_embeddings'
       /\ DOMAIN disk \subseteq DOMAIN disk']_vars

\* a failed call was made on a store with two index entries and two files
NeverDeletesWitness ==
    /\ last.status \notin {"none", "ok"}
    /\ Cardinality(DOMAIN face_embeddings) >= 2
    /\ Cardinality(DOMAIN disk) >= 2

FailedSave == last.op = "add" /\ last.status = "OSError"

\* C18: when the save of add(name, v, persist=true) fails, the error is raised
\* and nothing is returned, while the index entry at sanitize(name) already
\* holds v
FailedSaveKeepsEntry ==
    FailedSave =>
        /\ last.key = <<>>
        /\ last.bytes = <<>>
        /\ encode_path_safe(last.name) \in DOMAIN face_embeddings
        /\ face_embeddings[encode_path_safe(last.name)] = last.vectors

\* after a failed save the index holds v for the key while the key's file
\* holds the complete record of other vectors
FailedSaveWitness ==
    /\ FailedSave
    /\ face_embeddings[encode_path_safe(last.name)] = last.vectors
    /\ WriteFileOf(encode_path_safe(last.name)) \in DOMAIN disk
    /\ Decode(disk[WriteFileOf(encode_path_safe(last.name))]).ok
    /\ Decode(disk[WriteFileOf(encode_path_safe(last.name))]).vectors
         # last.vectors

\* C14: add(name, v, persist) with v not empty returns sanitize(name) and
\* encode(v), for either persist; with persist=true the bytes returned are the
\* content of the file written for sanitize(name)
AddReturns ==
    (last.op = "add" /\ Len(last.vectors) > 0) =>
        /\ last.status = "ok"
        /\ last.key = encode_path_safe(last.name)
        /\ last.bytes = Encode(last.vectors)
        /\ last.save =>
              /\ WriteFileOf(encode_path_safe(last.name)) \in DOMAIN disk
              /\ disk[WriteFileOf(encode_path_safe(last.name))] = last.bytes

\* a saving add of an unsafe name returned its key and the bytes of the file
AddReturnsWitness ==
    /\ SavedAdd
    /\ last.name # encode_path_safe(last.name)
    /\ last.key = encode_path_safe(last.name)
    /\ Len(last.vectors) = 2
    /\ disk[WriteFileOf(last.key)] = last.bytes

\* C15: for every record v of up to MaxFaces vectors, the empty one included,
\* decode(encode(v)) succeeds and gives v: the same vectors, as many, in the
\* same order
RoundTrip ==
    last.op = "decode" =>
        /\ last.status = "ok"
        /\ Len(last.value) = Len(last.vectors)
        /\ last.value = last.vectors

\* a record of two vectors of different dimension went through the round trip
RoundTripWitness ==
    /\ last.op = "decode"
    /\ Len(last.vectors) = 2
    /\ Len(last.vectors[1]) # Len(last.vectors[2])
    /\ last.bytes = Encode(last.vectors)
    /\ last.value = last.vectors

\* C16: a get(name) that misses the index and finds the name's file returns
\* the decoded vectors and enters them in the index under exactly the name
\* asked for; every other index entry and the whole disk stay as they were
MissLoadsOneEntry ==
    [][(/\ last'.op = "get"
        /\ last'.name \notin DOMAIN face_embeddings
        /\ ReadFileOf(face_embedding_folder, last'.name) \in DOMAIN disk
        /\ Decode(disk[ReadFileOf(face_embedding_folder, last'.name)]).ok)
       => (/\ last'.status = "ok"
           /\ last'.value
                = Decode(disk[ReadFileOf(face_embedding_folder,
                                         last'.name)]).vectors
           /\ face_embeddings'
                = Put(face_embeddings, last'.name,
                      Decode(disk[ReadFileOf(face_embedding_folder,
                                             last'.name)]).vectors)
           /\ disk' = disk)]_vars

\* a get loaded a record from its file into an index that held another entry
MissLoadsWitness ==
    /\ last.op = "get"
    /\ last.status = "ok"
    /\ Len(last.reads) = 1
    /\ last.reads[1].found
    /\ face_embeddings[last.name] = Decode(last.reads[1].bytes).vectors
    /\ Cardinality(DOMAIN face_embeddings) >= 2

\* C17: in every store, the file add(persist=true) writes for a key is the
\* file get reads for that key, so a fresh store's get of the key returns the
\* vectors saved, and it is among the files loadAll lists
OneBackingDirectory ==
    SavedAdd =>
        /\ WriteFileOf(last.key) = ReadFileOf(face_embedding_folder, last.key)
        /\ FreshGet(last.key).status = "ok"
        /\ FreshGet(last.key).value = last.vectors
        /\ WriteFileOf(last.key) \in Listed

\* the index entry of k and the file get reads for k hold the same vectors
Coherent(k) ==
    /\ Decode(disk[ReadFileOf(face_embedding_folder, k)]).ok
    /\ face_embeddings[k]
         = Decode(disk[ReadFileOf(face_embedding_folder, k)]).vectors

\* C19: in a store that reads the directory add writes, after any sequence of
\* get, getMany, loadAll and successful add calls, every key that is in the
\* index and has a file, and whose latest add (if any) saved, has in the
\* index the vectors its file decodes to
CacheCoherence ==
    face_embedding_folder = EMBEDDINGS_DIR =>
        \A k \in DOMAIN face_embeddings :
            (/\ ReadFileOf(face_embedding_folder, k) \in DOMAIN disk
             /\ k \notin unsaved)
            => Coherent(k)

\* one key is coherent through a saving add that replaced a loaded entry,
\* another through a get, and a third entry was added without saving
CacheCoherenceWitness ==
    /\ face_embedding_folder = EMBEDDINGS_DIR
    /\ SavedAdd
    /\ last.after = last.name
    /\ Coherent(last.key)
    /\ \E k \in DOMAIN face_embeddings :
          /\ k # last.key
          /\ k \notin unsaved
          /\ ReadFileOf(face_embedding_folder, k) \in DOMAIN disk
          /\ face_embeddings[k] = Stored
          /\ Coherent(k)

====
